---- MODULE Spec2Model ----
(***************************************************************************)
(* Recursive-descent JSON parser of src/main.go (the second, complete      *)
(* version of the file, lines 163-438).                                    *)
(*                                                                         *)
(* The input is a sequence of one-character strings; Go's index i of       *)
(* p.input is element i+1 of the sequence.  The Go call stack is the       *)
(* variable stack: one frame per active function, holding its locals.      *)
(* An index out of range is a Go run-time panic: it is recorded in the     *)
(* variable panic and stops the parse.                                     *)
(***************************************************************************)
EXTENDS Integers, Sequences, FiniteSets, TLC

VARIABLES input, pos, stack, result, panic, prev

vars == <<input, pos, stack, result, panic, prev>>

----------------------------------------------------------------------------
(* Characters *)

BeginObject == "{"
BeginArray == "["
EndObject == "}"
EndArray == "]"
NameSeparator == ":"
ValueSeparator == ","
Quote == "\""
Minus == "-"
Dot == "."

\* the characters of case 45, 48 .. 57
Digits == {"0", "1", "2", "3", "4", "5", "6", "7", "8", "9"}

\* the characters skipWhiteSpace advances over
Whitespace == {" ", "\n", "\t", "\r"}

\* the characters that end a literal or a number
Delimiters == {ValueSeparator, EndArray, EndObject}

\* p.input[i]
At(in, i) == in[i + 1]

\* p.input[a:b]
Slice(in, a, b) == SubSeq(in, a + 1, b)

----------------------------------------------------------------------------
(* JSON values and errors *)

Nil == [type |-> "nil"]
BoolOf(b) == [type |-> "bool", b |-> b]
IntOf(n) == [type |-> "int", n |-> n]
FloatOf(neg, mant, exp) == [type |-> "float", neg |-> neg, mant |-> mant, exp |-> exp]
StringOf(s) == [type |-> "string", s |-> s]
ArrayOf(elems) == [type |-> "array", elems |-> elems]
ObjectOf(m) == [type |-> "object", map |-> m]

\* []interface{}(nil), what parseArray returns beside an error: a slice of
\* length 0
NilSlice == ArrayOf(<<>>)

\* make(map[string]JSON)
EmptyMap == [k \in {} |-> Nil]

NilErr == [kind |-> "nil"]
\* &ParseError{msg: fmt.Sprintf(format, args...), pos: p}: the message is kept
\* as its format followed by its arguments
ParseError(format, args, p) == [kind |-> "ParseError", msg |-> <<format>> \o args, pos |-> p]
NumError(fn, s) == [kind |-> "NumError", func |-> fn, num |-> s]

----------------------------------------------------------------------------
(* strconv and strings *)

DigitSeq == <<"0", "1", "2", "3", "4", "5", "6", "7", "8", "9">>
DigitVal(c) == (CHOOSE i \in 1..10 : DigitSeq[i] = c) - 1

RECURSIVE DecVal(_)
DecVal(s) == IF s = <<>> THEN 0
             ELSE 10 * DecVal(SubSeq(s, 1, Len(s) - 1)) + DigitVal(s[Len(s)])

\* strconv.Atoi: an optional sign and one or more decimal digits.  The
\* lexemes of the model are far shorter than the 19 digits an int holds.
Atoi(s) ==
    LET signed == Len(s) > 0 /\ s[1] \in {"-", "+"}
        body == IF signed THEN Tail(s) ELSE s
        v == DecVal(body)
    IN  IF Len(body) = 0 \/ \E i \in 1..Len(body) : body[i] \notin Digits
        THEN [value |-> IntOf(0), err |-> NumError("Atoi", s)]
        ELSE [value |-> IntOf(IF signed /\ s[1] = "-" THEN 0 - v ELSE v), err |-> NilErr]

RECURSIVE TrimLeft(_)
TrimLeft(s) == IF s # <<>> /\ s[1] \in Whitespace THEN TrimLeft(Tail(s)) ELSE s

RECURSIVE TrimRight(_)
TrimRight(s) == IF s # <<>> /\ s[Len(s)] \in Whitespace
                THEN TrimRight(SubSeq(s, 1, Len(s) - 1)) ELSE s

\* strings.TrimSpace
TrimSpace(s) == TrimRight(TrimLeft(s))

RECURSIVE Normalize(_, _, _)
Normalize(neg, mant, exp) ==
    IF exp > 0 /\ mant % 10 = 0 THEN Normalize(neg, mant \div 10, exp - 1)
    ELSE FloatOf(neg, mant, exp)

\* strconv.ParseFloat(s, 64) on the decimal forms a lexeme can take: an
\* optional sign, digits with at most one point, at least one digit.  The
\* value mant * 10^-exp is kept with its trailing zeros removed, so that
\* equal numbers are equal values.
ParseFloat(s) ==
    LET signed == Len(s) > 0 /\ s[1] \in {"-", "+"}
        body == IF signed THEN Tail(s) ELSE s
        dots == {i \in 1..Len(body) : body[i] = Dot}
        digs == SelectSeq(body, LAMBDA c : c \in Digits)
        ok == /\ \A i \in 1..Len(body) : body[i] \in Digits \cup {Dot}
              /\ Cardinality(dots) <= 1
              /\ Len(digs) > 0
        exp == IF dots = {} THEN 0 ELSE Len(body) - (CHOOSE i \in dots : TRUE)
    IN  IF ok THEN [value |-> Normalize(signed /\ s[1] = "-", DecVal(digs), exp),
                    err |-> NilErr]
        ELSE [value |-> FloatOf(FALSE, 0, 0), err |-> NumError("ParseFloat", s)]

----------------------------------------------------------------------------
(* Scanning loops *)

RECURSIVE skipWhiteSpaceOnlySpace(_, _)
skipWhiteSpaceOnlySpace(in, p) ==
    IF p < Len(in) /\ At(in, p) = " " THEN skipWhiteSpaceOnlySpace(in, p + 1) ELSE p

\* skipWhiteSpace: the position it leaves the cursor at
RECURSIVE skipWhiteSpace(_, _)
skipWhiteSpace(in, p) ==
    IF p < Len(in) /\ At(in, p) \in Whitespace THEN skipWhiteSpace(in, p + 1) ELSE p

MapStoreKeepsFirst(m, k, v) ==
    [x \in DOMAIN m \cup {k} |-> IF x \in DOMAIN m THEN m[x] ELSE v]

\* obj[key] = value
MapStore(m, k, v) == [x \in DOMAIN m \cup {k} |-> IF x = k THEN v ELSE m[x]]

----------------------------------------------------------------------------
(* The call stack *)

\* A frame of function fn called with the cursor at entry.  value and err
\* hold what the last callee returned and, at pc "return", what fn returns;
\* the other fields are fn's locals.  hist lists the assignments obj[key] =
\* value of parseObject in the order they are made.
Frame(fn, entry) ==
    [fn |-> fn, pc |-> "enter", entry |-> entry, value |-> Nil, err |-> NilErr,
     cur |-> "", obj |-> EmptyMap, key |-> <<>>, hist |-> <<>>, arr |-> <<>>,
     start |-> 0, literal |-> <<>>, decimalFound |-> FALSE]

NoPanic == [index |-> 0 - 1, length |-> 0 - 1]
NoResult == [set |-> FALSE, value |-> Nil, err |-> NilErr]
NoPrev == [set |-> FALSE, input |-> <<>>, at |-> 0, pos |-> 0, result |-> NoResult]

Top == stack[Len(stack)]
SetTop(f) == [stack EXCEPT ![Len(stack)] = f]
Call(f, callee) == Append(SetTop(f), callee)
Returning(f, v, e) == SetTop([f EXCEPT !.pc = "return", !.value = v, !.err = e])

Running(fn, pc) == panic = NoPanic /\ Top.fn = fn /\ Top.pc = pc

\* p.input[i] with i out of range: the goroutine panics with the cursor at i
IndexOutOfRange(i) ==
    /\ pos' = i
    /\ panic' = [index |-> i, length |-> Len(input)]
    /\ UNCHANGED <<input, stack, result, prev>>

Done == result.set
Stopped == Done \/ panic # NoPanic

----------------------------------------------------------------------------
(* Parse *)

\* Parse returns (v, e)
ParseReturns(f, v, e) ==
    /\ stack' = SetTop([f EXCEPT !.pc = "return"])
    /\ result' = [set |-> TRUE, value |-> v, err |-> e]

\* Parse, up to its call of parseValue
Parse ==
    /\ Running("Parse", "enter")
    /\ UNCHANGED <<input, panic, prev>>
    /\ IF Len(input) <= 0
       THEN pos' = pos /\ ParseReturns(Top, Nil, NilErr)
       ELSE LET p1 == skipWhiteSpace(input, pos)
            IN  /\ pos' = p1
                /\ IF p1 >= Len(input)
                   THEN ParseReturns(Top, Nil, NilErr)
                   ELSE /\ stack' = Call([Top EXCEPT !.pc = "afterValue"],
                                         Frame("parseValue", p1))
                        /\ UNCHANGED result

\* Parse, from the return of parseValue: value, err := p.parseValue()
ParseAfterValue ==
    /\ Running("Parse", "afterValue")
    /\ UNCHANGED <<input, panic, prev>>
    /\ IF Top.err # NilErr
       THEN pos' = pos /\ ParseReturns(Top, Nil, Top.err)
       ELSE LET p1 == skipWhiteSpace(input, pos)
            IN  /\ pos' = p1
                /\ IF p1 < Len(input)
                   THEN ParseReturns(Top, Nil, Top.err)
                   ELSE ParseReturns(Top, Top.value, NilErr)

----------------------------------------------------------------------------
(* parseValue *)

Literal(cur) == CASE cur = "f" -> <<"f", "a", "l", "s", "e">>
                  [] cur = "t" -> <<"t", "r", "u", "e">>
                  [] cur = "n" -> <<"n", "u", "l", "l">>

\* the function the switch of parseValue calls on cur, "default" for none
Production(cur) ==
    CASE cur = BeginObject -> "parseObject"
      [] cur = Quote -> "parseString"
      [] cur = BeginArray -> "parseArray"
      [] cur \in {"f", "t", "n"} -> "parseLiteral"
      [] cur \in {Minus} \cup Digits -> "parseNumber"
      [] OTHER -> "default"

\* parseValue returns what the function it calls returns
parseValue ==
    /\ Running("parseValue", "enter")
    /\ LET p1 == skipWhiteSpace(input, pos)
       IN  IF p1 >= Len(input)
           THEN IndexOutOfRange(p1)
           ELSE LET cur == At(input, p1)
                    f == [Top EXCEPT !.cur = cur, !.pc = "return"]
                    fn == Production(cur)
                IN  /\ pos' = p1
                    /\ UNCHANGED <<input, result, panic, prev>>
                    /\ IF fn = "default"
                       THEN stack' = Returning(f, Nil, NilErr)
                       ELSE IF fn = "parseLiteral"
                       THEN stack' = Call(f, [Frame(fn, p1) EXCEPT !.literal = Literal(cur)])
                       ELSE stack' = Call(f, Frame(fn, p1))

\* a return statement: the frame is popped and its results reach the caller
Return ==
    /\ Running(Top.fn, "return")
    /\ Len(stack) > 1
    /\ stack' = [SubSeq(stack, 1, Len(stack) - 1) EXCEPT
                   ![Len(stack) - 1] = [@ EXCEPT !.value = Top.value, !.err = Top.err]]
    /\ UNCHANGED <<input, pos, result, panic, prev>>

----------------------------------------------------------------------------
(* parseString, parseLiteral, parseNumber *)

\* p.pos++; start := p.pos
parseString ==
    /\ Running("parseString", "enter")
    /\ pos' = pos + 1
    /\ stack' = SetTop([Top EXCEPT !.start = pos + 1, !.pc = "scan"])
    /\ UNCHANGED <<input, result, panic, prev>>

\* one test of the loop of parseString: its body, or on a quote the rest of
\* the function
parseStringScan ==
    /\ Running("parseString", "scan")
    /\ IF pos >= Len(input)
       THEN IndexOutOfRange(pos)
       ELSE /\ pos' = pos + 1
            /\ UNCHANGED <<input, result, panic, prev>>
            /\ IF At(input, pos) # Quote
               THEN UNCHANGED stack
               ELSE stack' = Returning(Top, StringOf(Slice(input, Top.start, pos)), NilErr)

\* start := p.pos; p.pos++
parseLiteral ==
    /\ Running("parseLiteral", "enter")
    /\ pos' = pos + 1
    /\ stack' = SetTop([Top EXCEPT !.start = pos, !.pc = "scan"])
    /\ UNCHANGED <<input, result, panic, prev>>

parseLiteralScanRewinds ==
    /\ Running("parseLiteral", "scan")
    /\ IF pos >= Len(input)
       THEN IndexOutOfRange(pos)
       ELSE LET literal == Top.literal
                foundLiteral == Slice(input, Top.start, pos)
            IN  /\ UNCHANGED <<input, result, panic, prev>>
                /\ IF At(input, pos) \notin Delimiters
                   THEN pos' = pos + 1 /\ UNCHANGED stack
                   ELSE IF foundLiteral # literal
                   THEN /\ pos' = Top.start
                        /\ stack' = Returning(Top, Nil,
                                        ParseError("Expected %q, got %q",
                                                   <<literal, foundLiteral>>, Top.start))
                   ELSE /\ pos' = pos
                        /\ stack' = Returning(Top, IF literal = Literal("n") THEN Nil
                                                   ELSE BoolOf(literal = Literal("t")), NilErr)

\* one pass of the loop of parseLiteral
parseLiteralScan ==
    /\ Running("parseLiteral", "scan")
    /\ IF pos >= Len(input)
       THEN IndexOutOfRange(pos)
       ELSE LET literal == Top.literal
                foundLiteral == Slice(input, Top.start, pos)
                mismatch == ParseError("Expected %q, got %q", <<literal, foundLiteral>>, pos)
            IN  /\ UNCHANGED <<input, result, panic, prev>>
                /\ IF At(input, pos) \notin Delimiters
                   THEN pos' = pos + 1 /\ UNCHANGED stack
                   ELSE /\ pos' = pos
                        /\ stack' =
                             IF foundLiteral # literal THEN Returning(Top, Nil, mismatch)
                             ELSE IF literal = Literal("t")
                             THEN Returning(Top, BoolOf(TRUE), NilErr)
                             ELSE IF literal = Literal("f")
                             THEN Returning(Top, BoolOf(FALSE), NilErr)
                             ELSE IF literal = Literal("n")
                             THEN Returning(Top, Nil, NilErr)
                             ELSE Returning(Top, Nil, mismatch)

\* start := p.pos; decimalFound := false
parseNumber ==
    /\ Running("parseNumber", "enter")
    /\ stack' = SetTop([Top EXCEPT !.start = pos, !.decimalFound = FALSE, !.pc = "scan"])
    /\ UNCHANGED <<input, pos, result, panic, prev>>

numberCaseIgnoresDecimalFound(c, decimalFound) ==
    IF c \in {Minus, Dot} \cup Digits THEN "digit"
    ELSE IF c \in Delimiters THEN "delimiter"
    ELSE "default"

\* the case the switch of parseNumber takes on character c ("point": the
\* first point; "second point": case 46 with decimalFound set)
numberCase(c, decimalFound) ==
    IF c \in {Minus} \cup Digits THEN "digit"
    ELSE IF c = Dot THEN (IF decimalFound THEN "second point" ELSE "point")
    ELSE IF c \in Delimiters THEN "delimiter"
    ELSE "default"

\* one pass of the loop of parseNumber
parseNumberScan ==
    /\ Running("parseNumber", "scan")
    /\ IF pos >= Len(input)
       THEN IndexOutOfRange(pos)
       ELSE LET case == numberCase(At(input, pos), Top.decimalFound)
                val == Slice(input, Top.start, pos)
                conv == IF Top.decimalFound THEN ParseFloat(TrimSpace(val)) ELSE Atoi(val)
                expected == ParseError("Expected digit, got %q", << <<At(input, pos)>> >>, pos)
            IN  /\ UNCHANGED <<input, result, panic, prev>>
                /\ IF case = "digit" THEN pos' = pos + 1 /\ UNCHANGED stack
                   ELSE IF case = "point"
                   THEN /\ pos' = pos + 1
                        /\ stack' = SetTop([Top EXCEPT !.decimalFound = TRUE])
                   ELSE IF case = "delimiter"
                   THEN /\ pos' = pos
                        /\ stack' = Returning(Top, conv.value, conv.err)
                   ELSE /\ pos' = pos
                        /\ stack' = Returning(Top, IntOf(0), expected)

----------------------------------------------------------------------------
(* parseObject *)

\* obj := make(map[string]JSON); p.pos++
parseObject ==
    /\ Running("parseObject", "enter")
    /\ pos' = pos + 1
    /\ stack' = SetTop([Top EXCEPT !.obj = EmptyMap, !.pc = "loop"])
    /\ UNCHANGED <<input, result, panic, prev>>

\* the head of the loop, up to the call of parseString for the key
parseObjectKey ==
    /\ Running("parseObject", "loop")
    /\ UNCHANGED <<input, result, panic, prev>>
    /\ LET p1 == skipWhiteSpace(input, pos)
       IN  IF p1 >= Len(input)
           THEN /\ pos' = p1
                /\ stack' = Returning(Top, Nil,
                                      ParseError("unexpected end of input", <<>>, p1))
           ELSE IF At(input, p1) = EndObject
           THEN /\ pos' = p1 + 1
                /\ stack' = Returning(Top, ObjectOf(Top.obj), NilErr)
           ELSE /\ pos' = p1
                /\ stack' = Call([Top EXCEPT !.pc = "afterKey"], Frame("parseString", p1))

\* key, err := p.parseString(), up to the call of parseValue for the member
parseObjectColon ==
    /\ Running("parseObject", "afterKey")
    /\ LET f == [Top EXCEPT !.key = Top.value.s]
           p1 == skipWhiteSpace(input, pos)
       IN  IF Top.err # NilErr
           THEN /\ pos' = pos
                /\ stack' = Returning(f, Nil, Top.err)
                /\ UNCHANGED <<input, result, panic, prev>>
           ELSE IF p1 >= Len(input)
           THEN IndexOutOfRange(p1)
           ELSE /\ UNCHANGED <<input, result, panic, prev>>
                /\ IF At(input, p1) # NameSeparator
                   THEN /\ pos' = p1
                        /\ stack' = Returning(f, Nil,
                                              ParseError("expected : after key", <<>>, p1))
                   ELSE /\ pos' = p1 + 1
                        /\ stack' = Call([f EXCEPT !.pc = "afterValue"],
                                         Frame("parseValue", p1 + 1))

\* value, err := p.parseValue(), to the end of the loop body
parseObjectMember ==
    /\ Running("parseObject", "afterValue")
    /\ LET f == [Top EXCEPT !.obj = MapStore(Top.obj, Top.key, Top.value),
                            !.hist = Append(Top.hist, [key |-> Top.key, value |-> Top.value])]
           p1 == skipWhiteSpace(input, pos)
       IN  IF Top.err # NilErr
           THEN /\ pos' = pos
                /\ stack' = Returning(Top, Nil, Top.err)
                /\ UNCHANGED <<input, result, panic, prev>>
           ELSE IF p1 >= Len(input)
           THEN IndexOutOfRange(p1)
           ELSE /\ UNCHANGED <<input, result, panic, prev>>
                /\ IF At(input, p1) = EndObject
                   THEN /\ pos' = p1
                        /\ stack' = SetTop([f EXCEPT !.pc = "loop"])
                   ELSE IF At(input, p1) # ValueSeparator
                   THEN /\ pos' = p1
                        /\ stack' = Returning(f, Nil,
                                              ParseError("expected , after", <<>>, p1))
                   ELSE /\ pos' = p1 + 1
                        /\ stack' = SetTop([f EXCEPT !.pc = "loop"])

----------------------------------------------------------------------------
(* parseArray *)

\* arr := make([]interface{}, 0); p.pos++
parseArray ==
    /\ Running("parseArray", "enter")
    /\ pos' = pos + 1
    /\ stack' = SetTop([Top EXCEPT !.arr = <<>>, !.pc = "loop"])
    /\ UNCHANGED <<input, result, panic, prev>>

\* the head of the loop, up to the call of parseValue for the element
parseArrayValue ==
    /\ Running("parseArray", "loop")
    /\ LET p1 == skipWhiteSpace(input, pos)
       IN  /\ pos' = p1
           /\ stack' = Call([Top EXCEPT !.pc = "afterValue"], Frame("parseValue", p1))
    /\ UNCHANGED <<input, result, panic, prev>>

\* value, err := p.parseValue(), to the end of the loop body
parseArrayNext ==
    /\ Running("parseArray", "afterValue")
    /\ LET arr == Append(Top.arr, Top.value)
           f == [Top EXCEPT !.arr = arr]
           p1 == skipWhiteSpace(input, pos)
       IN  IF Top.err # NilErr
           THEN /\ pos' = pos
                /\ stack' = Returning(Top, NilSlice, Top.err)
                /\ UNCHANGED <<input, result, panic, prev>>
           ELSE IF p1 >= Len(input)
           THEN IndexOutOfRange(p1)
           ELSE /\ UNCHANGED <<input, result, panic, prev>>
                /\ IF At(input, p1) = EndArray
                   THEN /\ pos' = p1 + 1
                        /\ stack' = Returning(f, ArrayOf(arr), NilErr)
                   ELSE IF At(input, p1) # ValueSeparator
                   THEN /\ pos' = p1
                        /\ stack' = Returning(f, NilSlice,
                                              ParseError("Expected , in array value", <<>>, p1))
                   ELSE /\ pos' = p1 + 1
                        /\ stack' = SetTop([f EXCEPT !.pc = "loop"])

----------------------------------------------------------------------------
(* Inputs *)

MaxLen == 3

Alphabet == {BeginObject, EndObject, BeginArray, EndArray, Quote, NameSeparator,
             ValueSeparator, " ", "\n", "1", Dot, "a"}

\* every text of at most MaxLen characters of Alphabet
Texts == UNION {[1..n -> Alphabet] : n \in 0..MaxLen}

\* texts longer than MaxLen: the documented examples and their variants
Samples == {
    \* {"a":1,"a":2}
    <<"{", "\"", "a", "\"", ":", "1", ",", "\"", "a", "\"", ":", "2", "}">>,
    \* {"a": 1.2.3}
    <<"{", "\"", "a", "\"", ":", " ", "1", ".", "2", ".", "3", "}">>,
    \* [{"a": 1.2.3}]
    <<"[", "{", "\"", "a", "\"", ":", " ", "1", ".", "2", ".", "3", "}", "]">>,
    \* true x
    <<"t", "r", "u", "e", " ", "x">>,
    \* true,
    <<"t", "r", "u", "e", ",">>,
    \* [true]
    <<"[", "t", "r", "u", "e", "]">>,
    \* [true ]
    <<"[", "t", "r", "u", "e", " ", "]">>,
    \* [false,null]
    <<"[", "f", "a", "l", "s", "e", ",", "n", "u", "l", "l", "]">>,
    \* truee
    <<"t", "r", "u", "e", "e">>,
    \* [tru]
    <<"[", "t", "r", "u", "]">>,
    \* {"a": 
    <<"{", "\"", "a", "\"", ":", " ">>,
    \* {} x
    <<"{", "}", " ", "x">>,
    \* "a" x
    <<"\"", "a", "\"", " ", "x">>,
    \* [ ]
    <<"[", " ", "]">>,
    \* [{}]
    <<"[", "{", "}", "]">>,
    \* {"a":[]}
    <<"{", "\"", "a", "\"", ":", "[", "]", "}">>,
    \* { }
    <<"{", " ", "}">>,
    \* {"a": {"b": [1, null, true, "x"]}}
    <<"{", "\"", "a", "\"", ":", " ", "{", "\"", "b", "\"", ":", " ", "[", "1", ",", " ", "n", "u", "l", "l", ",", " ", "t", "r", "u", "e", ",", " ", "\"", "x", "\"", "]", "}", "}">>,
    \* {a":1}
    <<"{", "a", "\"", ":", "1", "}">>,
    \* {"a" 1}
    <<"{", "\"", "a", "\"", " ", "1", "}">>,
    \* [1 ]
    <<"[", "1", " ", "]">>,
    \* [-1.50,2]
    <<"[", "-", "1", ".", "5", "0", ",", "2", "]">>,
    \* [1-2]
    <<"[", "1", "-", "2", "]">>,
    \* [1.]
    <<"[", "1", ".", "]">>,
    \* [-]
    <<"[", "-", "]">>,
    \* {"a":1,"b":"x","a":[]}
    <<"{", "\"", "a", "\"", ":", "1", ",", "\"", "b", "\"", ":", "\"", "x", "\"", ",", "\"", "a", "\"", ":", "[", "]", "}">>,
    \* {"a":{},"a":{}}
    <<"{", "\"", "a", "\"", ":", "{", "}", ",", "\"", "a", "\"", ":", "{", "}", "}">>,
    \*  \t\r\n
    <<" ", "\t", "\r", "\n">>,
    \* \t[1.10]
    <<"\t", "[", "1", ".", "1", "0", "]">>,
    \* [1.1]
    <<"[", "1", ".", "1", "]">>}

Inputs == Texts \cup Samples

\* NewParser(input)
NewParser(in) ==
    /\ input = in
    /\ pos = 0
    /\ stack = <<Frame("Parse", 0)>>
    /\ result = NoResult
    /\ panic = NoPanic

Init ==
    /\ \E in \in Inputs : NewParser(in)
    /\ prev = NoPrev

Next ==
    \/ Parse
    \/ ParseAfterValue
    \/ parseValue
    \/ Return
    \/ parseString
    \/ parseStringScan
    \/ parseLiteral
    \/ parseLiteralScan
    \/ parseNumber
    \/ parseNumberScan
    \/ parseObject
    \/ parseObjectKey
    \/ parseObjectColon
    \/ parseObjectMember
    \/ parseArray
    \/ parseArrayValue
    \/ parseArrayNext

Spec == Init /\ [][Next]_vars

----------------------------------------------------------------------------
(* A second parse of the same text with whitespace inserted *)

MaxRun == 1

\* the runs of at most MaxRun whitespace characters
Runs == UNION {[1..n -> Whitespace] : n \in 1..MaxRun}

InsertAt(in, i, run) == SubSeq(in, 1, i) \o run \o SubSeq(in, i + 1, Len(in))

\* once Parse has returned, the caller keeps what it returned and parses,
\* with a new Parser, the text with a run inserted before index i
Reparse ==
    /\ Done
    /\ ~prev.set
    /\ \E i \in 0..Len(input), run \in Runs :
          /\ input' = InsertAt(input, i, run)
          /\ prev' = [set |-> TRUE, input |-> input, at |-> i, pos |-> pos,
                      result |-> result]
    /\ pos' = 0
    /\ stack' = <<Frame("Parse", 0)>>
    /\ result' = NoResult
    /\ panic' = NoPanic

NextWS == Next \/ Reparse

SpecWS == Init /\ [][NextWS]_vars

----------------------------------------------------------------------------
(* Properties *)

TypeOK ==
    /\ pos \in 0..Len(input)
    /\ Len(stack) >= 1
    /\ stack[1].fn = "Parse"
    /\ Done => Len(stack) = 1 /\ Top.pc = "return"

\* C1: when the top-level value parsed without error and a non-whitespace
\* character is left after it, Parse returns an error positioned at that
\* character (the cursor, once the trailing whitespace is skipped).
TrailingCharactersRejected ==
    (Done /\ stack[1].err = NilErr /\ pos < Len(input))
        => (result.err.kind = "ParseError" /\ result.err.pos = pos)

\* C2: Parse never reads the input at an index >= len(input), and what it
\* returns is a value or a positioned error.
NeverOutOfRange ==
    /\ panic = NoPanic
    /\ Done => result.err.kind \in {"nil", "ParseError"}

Structural == {BeginObject, EndObject, BeginArray, EndArray, NameSeparator, ValueSeparator}

\* the gap before index i of in lies between two adjacent tokens: outside
\* every string, inside the text, and next to a structural character, a
\* quote or whitespace
BetweenTokens(in, i) ==
    /\ 0 < i /\ i < Len(in)
    /\ Cardinality({k \in 0..i - 1 : At(in, k) = Quote}) % 2 = 0
    /\ \/ At(in, i - 1) \in Structural \cup Whitespace \cup {Quote}
       \/ At(in, i) \in Structural \cup Whitespace \cup {Quote}

\* Parse has returned r, with no error, leaving the cursor at p, the end of
\* the text in
Accepted(r, in, p) == r.set /\ r.err = NilErr /\ p = Len(in)

\* C3: a text Parse accepts is accepted, with the same value, once a run of
\* whitespace is inserted between two of its adjacent tokens.
WhitespaceInsensitive ==
    (Stopped /\ prev.set /\ Accepted(prev.result, prev.input, prev.pos)
       /\ BetweenTokens(prev.input, prev.at))
        => (Accepted(result, input, pos) /\ result.value = prev.result.value)

\* the text has, at index e, open, then whitespace only, then close
EmptyContainerAt(in, e, open, close) ==
    /\ At(in, e) = open
    /\ \E j \in e + 1..Len(in) - 1 :
          /\ At(in, j) = close
          /\ \A k \in e + 1..j - 1 : At(in, k) \in Whitespace

\* C4: parseObject on {} returns an object of no keys and parseArray on []
\* an array of no elements, at top level and nested, whitespace between the
\* brackets allowed.
EmptyContainers ==
    /\ (Top.fn = "parseObject" /\ Top.pc = "return"
          /\ EmptyContainerAt(input, Top.entry, BeginObject, EndObject))
        => (Top.err = NilErr /\ Top.value = ObjectOf(EmptyMap))
    /\ (Top.fn = "parseArray" /\ Top.pc = "return"
          /\ EmptyContainerAt(input, Top.entry, BeginArray, EndArray))
        => (Top.err = NilErr /\ Top.value = ArrayOf(<<>>))

\* the last member of key k among the members h, in the order of the text
LastOf(h, k) ==
    h[CHOOSE i \in 1..Len(h) : h[i].key = k /\ \A j \in i + 1..Len(h) : h[j].key # k]

\* C5: the object parseObject returns has exactly the keys of the members
\* it parsed, each with the value of its last member in the text.
LastWriteWins ==
    (Top.fn = "parseObject" /\ Top.pc = "return" /\ Top.err = NilErr)
        => /\ Top.value.type = "object"
           /\ DOMAIN Top.value.map = {Top.hist[i].key : i \in 1..Len(Top.hist)}
           /\ \A k \in DOMAIN Top.value.map : Top.value.map[k] = LastOf(Top.hist, k).value

\* parseObject returns an object a key of which occurs twice in the text,
\* with different values
DuplicateKeyParsed ==
    /\ Top.fn = "parseObject" /\ Top.pc = "return" /\ Top.err = NilErr
    /\ \E i, j \in 1..Len(Top.hist) :
          /\ i < j
          /\ Top.hist[i].key = Top.hist[j].key
          /\ Top.hist[i].value # Top.hist[j].value

NumberChars == {Minus, Dot} \cup Digits

\* the points of the number lexeme that starts at index s of in: the run of
\* -, digits and points from s on
DotsOf(in, s) ==
    {k \in s..Len(in) - 1 :
        At(in, k) = Dot /\ \A j \in s..k : At(in, j) \in NumberChars}

SecondDot(in, s) ==
    CHOOSE k \in DotsOf(in, s) : Cardinality({j \in DotsOf(in, s) : j < k}) = 1

MalformedNumber(p) == ParseError("Expected digit, got %q", << <<Dot>> >>, p)

IsMalformedNumber(e) == e.kind = "ParseError" /\ e = MalformedNumber(e.pos)

\* parseNumber, on a lexeme with a second point, returns the error at the
\* offset of that point
NumberFailsAtSecondDot ==
    (Top.fn = "parseNumber" /\ Cardinality(DotsOf(input, Top.entry)) >= 2)
        => /\ panic = NoPanic
           /\ pos <= SecondDot(input, Top.entry)
           /\ Top.pc = "return" => Top.err = MalformedNumber(SecondDot(input, Top.entry))

\* C6: a number lexeme with a second point fails with the error positioned
\* at that point, and every caller up to Parse returns this error as it is.
MalformedNumberPropagates ==
    [][/\ NumberFailsAtSecondDot'
       /\ (panic = NoPanic /\ IsMalformedNumber(Top.err))
            => /\ panic' = NoPanic
               /\ Top'.err = Top.err
               /\ Len(stack) = 1 => (Done' /\ result'.err = Top.err)]_vars

\* Parse has returned the error of a second point met inside a container
MalformedNumberReturned ==
    /\ Done
    /\ IsMalformedNumber(result.err)
    /\ At(input, 0) \in {BeginObject, BeginArray}
    /\ \E s \in 1..Len(input) - 1 :
          /\ Cardinality(DotsOf(input, s)) >= 2
          /\ result.err.pos = SecondDot(input, s)

IsBlank(in) == \A i \in 1..Len(in) : in[i] \in {" ", "\t", "\n", "\r"}

\* C7: on a text of whitespace only, or of length 0, Parse never calls
\* parseValue and returns nil, nil.
EmptyInputSilent ==
    IsBlank(input)
        => /\ panic = NoPanic
           /\ \A i \in 1..Len(stack) : stack[i].fn # "parseValue"
           /\ stack[1].pc # "afterValue"
           /\ Done => (result.value = Nil /\ result.err = NilErr)

\* Parse has returned on a text of whitespace
BlankParsed == Done /\ Len(input) > 0 /\ IsBlank(input) /\ pos = Len(input)

\* C8: parseValue, on a character that starts no value, returns an error
\* positioned at the cursor.
UnexpectedCharacterRejected ==
    (Top.fn = "parseValue" /\ Top.pc = "return"
       /\ Top.cur \notin {"{", "[", "\"", "f", "t", "n", "-"} \cup Digits)
        => (Top.err.kind = "ParseError" /\ Top.err.pos = pos)

\* the index of the first character at or after the cursor that is not
\* whitespace, Len(input) when there is none
NextToken == skipWhiteSpace(input, pos)

Caller == stack[Len(stack) - 1]

\* C9: where parseObject expects a key, a character that is neither } nor "
\* is an error at its offset and is never taken for the quote that opens
\* the key; after the key, a character other than : is an error at its
\* offset, and the member value is parsed only after a colon.
ObjectKeyRequiresQuote ==
    [][/\ (Running("parseObject", "loop") /\ NextToken < Len(input)
             /\ At(input, NextToken) \notin {EndObject, Quote})
            => (Top'.fn = "parseObject" /\ Top'.pc = "return"
                  /\ Top'.err.kind = "ParseError" /\ Top'.err.pos = NextToken)
       /\ (Running("parseObject", "afterKey") /\ NextToken < Len(input)
             /\ At(input, NextToken) # NameSeparator)
            => (Top'.fn = "parseObject" /\ Top'.pc = "return"
                  /\ Top'.err.kind = "ParseError" /\ Top'.err.pos = NextToken)
       /\ (Top'.fn = "parseString" /\ Top'.pc = "enter" /\ Caller'.fn = "parseObject")
            => At(input', pos') = Quote]_vars

\* C10: no step of a parse moves the cursor back or changes the text.
CursorMonotonic == [][pos' >= pos /\ input' = input]_vars

\* an error is being returned from a nested call with the cursor advanced
ErrorReturnedNested == Len(stack) >= 4 /\ Top.pc = "return" /\ Top.err # NilErr /\ pos > 2

====
